---- MODULE Spec2Model ----
(***************************************************************************)
(* Model of Mortgage_Calculator.py: the class Mortgage (repayments,        *)
(* balance_after, __str__, draw_balance_graph) and the console program     *)
(* main().                                                                 *)
(*                                                                         *)
(* Numbers.  A Python float is modelled by the exact rational it denotes,  *)
(* or by one of the special values nan, +inf, -inf.  The arithmetic        *)
(* operators follow Python's rules for the special values and for          *)
(* ZeroDivisionError; binary64 rounding and overflow are NOT represented:  *)
(* every finite result is the exact rational result.  Rationals are pairs  *)
(* of natural numbers of unbounded size (sequences of base-1000 limbs,     *)
(* least significant first), because daily_interest_factor ** (365 * Y)    *)
(* does not fit a machine integer.                                         *)
(***************************************************************************)
EXTENDS Integers, Sequences, FiniteSets, Bags, TLC

(***************************************************************************)
(* Natural numbers of unbounded size.                                      *)
(***************************************************************************)
Base == 10 * 10 * 10

RECURSIVE NatToBig(_)
NatToBig(n) == IF n = 0 THEN <<>> ELSE <<n % Base>> \o NatToBig(n \div Base)

RECURSIVE BigToNat(_)
\* only used on numbers of at most three limbs
BigToNat(a) == IF Len(a) = 0 THEN 0 ELSE a[1] + Base * BigToNat(Tail(a))

RECURSIVE BigTop(_, _, _)
\* highest index in lo..hi holding a non-zero limb, 0 when there is none
BigTop(a, lo, hi) ==
  IF lo > hi THEN 0
  ELSE IF lo = hi THEN (IF a[lo] # 0 THEN lo ELSE 0)
  ELSE LET mid == (lo + hi) \div 2
           up == BigTop(a, mid + 1, hi)
       IN IF up # 0 THEN up ELSE BigTop(a, lo, mid)

BigTrim(a) == SubSeq(a, 1, BigTop(a, 1, Len(a)))

RECURSIVE BigCmpRange(_, _, _, _)
BigCmpRange(a, b, lo, hi) ==
  IF lo > hi THEN 0
  ELSE IF lo = hi THEN (IF a[lo] < b[lo] THEN -1 ELSE IF a[lo] > b[lo] THEN 1 ELSE 0)
  ELSE LET mid == (lo + hi) \div 2
           up == BigCmpRange(a, b, mid + 1, hi)
       IN IF up # 0 THEN up ELSE BigCmpRange(a, b, lo, mid)

\* -1, 0, 1 as a < b, a = b, a > b
BigCmp(a, b) ==
  IF Len(a) < Len(b) THEN -1
  ELSE IF Len(a) > Len(b) THEN 1
  ELSE BigCmpRange(a, b, 1, Len(a))

Limb(a, i) == IF i >= 1 /\ i <= Len(a) THEN a[i] ELSE 0

RECURSIVE BigCarry(_)
\* carry (or borrow) propagation over a vector of columns whose value is >= 0
BigCarry(col) ==
  IF \A i \in 1..Len(col) : col[i] >= 0 /\ col[i] < Base
  THEN BigTrim(col)
  ELSE BigCarry([i \in 1..(Len(col) + 1) |->
                   (IF i <= Len(col) THEN col[i] % Base ELSE 0)
                   + (IF i > 1 THEN col[i - 1] \div Base ELSE 0)])

BigAdd(a, b) ==
  LET n == IF Len(a) > Len(b) THEN Len(a) ELSE Len(b)
  IN BigCarry([i \in 1..n |-> Limb(a, i) + Limb(b, i)])

\* a - b, for a >= b
BigSub(a, b) == BigCarry([i \in 1..Len(a) |-> a[i] - Limb(b, i)])

\* the sum of f[i] over the domain of f (every f[i] >= 0): the cardinality
\* of the bag holding i with f[i] + 1 copies, less one copy each
SumOf(f, n) == BagCardinality([i \in DOMAIN f |-> f[i] + 1]) - n

BigMul(a, b) ==
  IF Len(a) = 0 \/ Len(b) = 0 THEN <<>>
  ELSE BigCarry([k \in 1..(Len(a) + Len(b) - 1) |->
          LET lo == IF k - Len(b) + 1 > 1 THEN k - Len(b) + 1 ELSE 1
              hi == IF k < Len(a) THEN k ELSE Len(a)
          IN SumOf([i \in lo..hi |-> a[i] * b[k - i + 1]], hi - lo + 1)])

RECURSIVE BigPow(_, _)
\* a ** e for e >= 0, by repeated squaring
BigPow(a, e) ==
  IF e = 0 THEN <<1>>
  ELSE LET h == BigPow(a, e \div 2)
           sq == BigMul(h, h)
       IN IF e % 2 = 1 THEN BigMul(sq, a) ELSE sq

RECURSIVE Gcd(_, _)
Gcd(x, y) == IF y = 0 THEN x ELSE Gcd(y, x % y)

(***************************************************************************)
(* Python numbers.  k is "fin" (the rational (-1)^neg * n / d), "nan",     *)
(* "inf" (signed by neg), or the name of the exception the expression      *)
(* raised instead of producing a value.                                    *)
(***************************************************************************)
NaN == [k |-> "nan", neg |-> FALSE, n |-> <<>>, d |-> <<1>>]
Inf(neg) == [k |-> "inf", neg |-> neg, n |-> <<>>, d |-> <<1>>]
Raise(exc) == [k |-> exc, neg |-> FALSE, n |-> <<>>, d |-> <<1>>]

IsRaise(a) == a.k \notin {"fin", "nan", "inf"}
IsFin(a) == a.k = "fin"
IsZero(a) == a.k = "fin" /\ Len(a.n) = 0

\* the finite number (-1)^neg * n / d, in lowest terms when n and d are small
Fin(neg, n, d) ==
  IF Len(n) = 0 THEN [k |-> "fin", neg |-> FALSE, n |-> <<>>, d |-> <<1>>]
  ELSE IF Len(n) <= 3 /\ Len(d) <= 3
  THEN LET g == Gcd(BigToNat(n), BigToNat(d))
       IN [k |-> "fin", neg |-> neg,
           n |-> NatToBig(BigToNat(n) \div g), d |-> NatToBig(BigToNat(d) \div g)]
  ELSE [k |-> "fin", neg |-> neg, n |-> n, d |-> d]

\* the float (or int) with the value of the integer i
FInt(i) == Fin(i < 0, NatToBig(IF i < 0 THEN -i ELSE i), <<1>>)

\* the decimal literal num / 10^scale
FDec(num, scale) ==
  Fin(num < 0, NatToBig(IF num < 0 THEN -num ELSE num), BigPow(<<10>>, scale))

FNeg(a) ==
  IF a.k = "inf" THEN Inf(~a.neg)
  ELSE IF a.k = "fin" /\ Len(a.n) # 0 THEN [a EXCEPT !.neg = ~a.neg]
  ELSE a

\* -1, 0, 1 as a < b, a = b, a > b, for finite a and b
FinCmp(a, b) ==
  LET sa == IF Len(a.n) = 0 THEN 0 ELSE IF a.neg THEN -1 ELSE 1
      sb == IF Len(b.n) = 0 THEN 0 ELSE IF b.neg THEN -1 ELSE 1
  IN IF sa < sb THEN -1
     ELSE IF sa > sb THEN 1
     ELSE IF sa = 0 THEN 0
     ELSE LET c == IF a.d = b.d THEN BigCmp(a.n, b.n)
                   ELSE BigCmp(BigMul(a.n, b.d), BigMul(b.n, a.d))
          IN sa * c

\* a < b, a <= b, a == b as Python evaluates them: False when either is nan
FLt(a, b) ==
  IF a.k = "nan" \/ b.k = "nan" THEN FALSE
  ELSE IF a.k = "inf" THEN a.neg /\ ~(b.k = "inf" /\ b.neg)
  ELSE IF b.k = "inf" THEN ~b.neg
  ELSE FinCmp(a, b) < 0

FEq(a, b) ==
  IF a.k = "nan" \/ b.k = "nan" THEN FALSE
  ELSE IF a.k = "inf" \/ b.k = "inf" THEN a.k = b.k /\ a.neg = b.neg
  ELSE FinCmp(a, b) = 0

FLe(a, b) == FLt(a, b) \/ FEq(a, b)

\* (-1)^xneg * x / den + (-1)^yneg * y / den
FinAdd(xneg, x, yneg, y, den) ==
  Fin(IF xneg = yneg \/ BigCmp(x, y) >= 0 THEN xneg ELSE yneg,
      IF xneg = yneg THEN BigAdd(x, y)
      ELSE IF BigCmp(x, y) >= 0 THEN BigSub(x, y)
      ELSE BigSub(y, x),
      den)

FAdd(a, b) ==
  IF IsRaise(a) THEN a
  ELSE IF IsRaise(b) THEN b
  ELSE IF a.k = "nan" \/ b.k = "nan" THEN NaN
  ELSE IF a.k = "inf" /\ b.k = "inf" THEN (IF a.neg = b.neg THEN a ELSE NaN)
  ELSE IF a.k = "inf" THEN a
  ELSE IF b.k = "inf" THEN b
  ELSE IF a.d = b.d THEN FinAdd(a.neg, a.n, b.neg, b.n, a.d)
  ELSE FinAdd(a.neg, BigMul(a.n, b.d), b.neg, BigMul(b.n, a.d), BigMul(a.d, b.d))

FSub(a, b) == FAdd(a, FNeg(b))

FMul(a, b) ==
  IF IsRaise(a) THEN a
  ELSE IF IsRaise(b) THEN b
  ELSE IF a.k = "nan" \/ b.k = "nan" THEN NaN
  ELSE IF a.k = "inf" \/ b.k = "inf"
  THEN (IF IsZero(a) \/ IsZero(b) THEN NaN ELSE Inf(a.neg # b.neg))
  ELSE Fin(a.neg # b.neg, BigMul(a.n, b.n), BigMul(a.d, b.d))

\* true division: a zero divisor raises whatever the dividend is
FDiv(a, b) ==
  IF IsRaise(a) THEN a
  ELSE IF IsRaise(b) THEN b
  ELSE IF IsZero(b) THEN Raise("ZeroDivisionError")
  ELSE IF a.k = "nan" \/ b.k = "nan" THEN NaN
  ELSE IF a.k = "inf" THEN (IF b.k = "inf" THEN NaN ELSE Inf(a.neg # b.neg))
  ELSE IF b.k = "inf" THEN FInt(0)
  ELSE Fin(a.neg # b.neg, BigMul(a.n, b.d), BigMul(a.d, b.n))

\* a ** e for a float a and an int e
FPow(a, e) ==
  IF IsRaise(a) THEN a
  ELSE IF e = 0 THEN FInt(1)
  ELSE IF a.k = "nan" THEN NaN
  ELSE IF a.k = "inf"
  THEN (IF e > 0 THEN Inf(a.neg /\ e % 2 = 1) ELSE FInt(0))
  ELSE IF IsZero(a)
  THEN (IF e < 0 THEN Raise("ZeroDivisionError") ELSE FInt(0))
  ELSE IF e > 0
  THEN Fin(a.neg /\ e % 2 = 1, BigPow(a.n, e), BigPow(a.d, e))
  ELSE Fin(a.neg /\ e % 2 = 1, BigPow(a.d, -e), BigPow(a.n, -e))

(***************************************************************************)
(* class Mortgage.                                                         *)
(***************************************************************************)
None == <<>>
Some(x) == <<x>>
Get(o) == o[1]

\* Mortgage.__init__: the four arguments are stored as they are given
Mortgage(loan_, years_, interest_, r_frequency_) ==
  [loan |-> loan_, years |-> years_, interest |-> interest_,
   r_frequency |-> r_frequency_]

DaysPerYear == 365

\* daily_interest_factor = 1 + p / 365 with p = self.interest / 100
daily_interest_factor(self) ==
  FAdd(FInt(1), FDiv(FDiv(self.interest, FInt(100)), FInt(DaysPerYear)))

\* a faulty repayments: the interest of one interval on the whole loan, which
\* repays no principal
repayments_interest_only(self) ==
  FMul(self.loan, FSub(FPow(daily_interest_factor(self), self.r_frequency), FInt(1)))

\* a faulty repayments: the monthly amount whatever the interval is
repayments_always_monthly(self) ==
  LET f == daily_interest_factor(self)
  IN FDiv(FMul(FMul(self.loan, FPow(f, DaysPerYear * self.years)),
               FSub(FPow(f, 30), FInt(1))),
          FSub(FPow(f, DaysPerYear * self.years), FInt(1)))

\* Mortgage.repayments: the repayment amount P0, or the exception raised
repayments(self) ==
  LET L == self.loan
      Y == self.years
      k == self.r_frequency
      f == daily_interest_factor(self)
      numerator == FMul(FMul(L, FPow(f, DaysPerYear * Y)), FSub(FPow(f, k), FInt(1)))
      denominator == FSub(FPow(f, DaysPerYear * Y), FInt(1))
  IN FDiv(numerator, denominator)

\* a faulty guard: the last year of the term is rejected too
OutOfRange_last_year(self, n) == n < 0 \/ n >= self.years

\* the guard of balance_after: n is outside 0..self.years
OutOfRange(self, n) == n < 0 \/ n > self.years

\* a faulty balance_after: the balance one year later than asked
balance_after_next_year(self, n) ==
  IF OutOfRange(self, n) THEN Raise("ValueError")
  ELSE LET f == daily_interest_factor(self)
       IN FSub(FMul(self.loan, FPow(f, DaysPerYear * (n + 1))),
               FMul(repayments(self),
                    FDiv(FSub(FPow(f, DaysPerYear * (n + 1)), FInt(1)),
                         FSub(FPow(f, self.r_frequency), FInt(1)))))

\* a faulty balance_after: the repayments are added to the debt
balance_after_adding(self, n) ==
  IF OutOfRange(self, n) THEN Raise("ValueError")
  ELSE LET f == daily_interest_factor(self)
       IN FAdd(FMul(self.loan, FPow(f, DaysPerYear * n)),
               FMul(repayments(self),
                    FDiv(FSub(FPow(f, DaysPerYear * n), FInt(1)),
                         FSub(FPow(f, self.r_frequency), FInt(1)))))

\* Mortgage.balance_after: the balance Bn after n years, or the exception raised
balance_after(self, n) ==
  IF OutOfRange(self, n) THEN Raise("ValueError")
  ELSE LET L == self.loan
           k == self.r_frequency
           P0 == repayments(self)
           f == daily_interest_factor(self)
       IN FSub(FMul(L, FPow(f, DaysPerYear * n)),
               FMul(P0, FDiv(FSub(FPow(f, DaysPerYear * n), FInt(1)),
                             FSub(FPow(f, k), FInt(1)))))

\* a faulty label: no fallback for an interval outside the map
FrequencyLabel_no_fallback(k) ==
  IF k = 7 THEN "Weekly"
  ELSE IF k = 14 THEN "Fortnightly"
  ELSE "Monthly"

\* the label __str__ gives the repayment line: frequency_map.get(k, f"{k} days")
FrequencyLabel(k) ==
  IF k = 7 THEN "Weekly"
  ELSE IF k = 14 THEN "Fortnightly"
  ELSE IF k = 30 THEN "Monthly"
  ELSE ToString(k) \o " days"

\* the four lines __str__ formats (the numbers before they are cut to two
\* decimals), or the exception that repayment_amount is
Summary(self, repayment_amount) ==
  IF IsRaise(repayment_amount)
  THEN [raised |-> repayment_amount.k, loan |-> self.loan, years |-> self.years,
        interest |-> self.interest, label |-> "", repayment |-> repayment_amount]
  ELSE [raised |-> "", loan |-> self.loan, years |-> self.years,
        interest |-> self.interest, label |-> FrequencyLabel(self.r_frequency),
        repayment |-> repayment_amount]

\* Mortgage.__str__: repayment_amount = self.repayments(), then the summary
Str(self) == Summary(self, repayments(self))

\* a faulty range of years: np.arange(0, self.years + 1)
GraphYears_from_zero(self) == [j \in 1..(self.years + 1) |-> j - 1]

\* np.arange(1, self.years + 1)
GraphYears(self) == [j \in 1..self.years |-> j]

RECURSIVE BalancesFrom(_, _, _)
\* [self.balance_after(n) for n in years], outs being the outcomes of the
\* calls made so far: the next call is made unless the last one raised
BalancesFrom(self, ys, outs) ==
  IF Len(outs) = Len(ys) \/ (Len(outs) > 0 /\ IsRaise(outs[Len(outs)]))
  THEN outs
  ELSE BalancesFrom(self, ys, Append(outs, balance_after(self, ys[Len(outs) + 1])))

\* what draw_balance_graph leaves behind, given the outcomes of its calls of
\* balance_after: the years, the calls made in the order they are made, the
\* exception raised if any, and the balances handed to plt.plot when none
\* raised
Drawn(ys, outs) ==
  IF Len(outs) > 0 /\ IsRaise(outs[Len(outs)])
  THEN [years |-> ys, calls |-> SubSeq(ys, 1, Len(outs)),
        raised |-> outs[Len(outs)].k, remaining_balances |-> <<>>]
  ELSE [years |-> ys, calls |-> SubSeq(ys, 1, Len(outs)),
        raised |-> "", remaining_balances |-> outs]

\* Mortgage.draw_balance_graph.  (n is a numpy integer here; for an interval
\* k > 0 the results are those of an int.)
draw_balance_graph(self) ==
  Drawn(GraphYears(self), BalancesFrom(self, GraphYears(self), <<>>))

(***************************************************************************)
(* Console input.  A line is the sequence of its characters.  float() and  *)
(* int() are modelled for lines made of a sign, digits, one "." and the    *)
(* words nan and inf; any other line is a ValueError.                      *)
(***************************************************************************)
DigitChars == <<"0", "1", "2", "3", "4", "5", "6", "7", "8", "9">>
IsDigit(c) == \E i \in 1..10 : DigitChars[i] = c
DigitValue(c) == (CHOOSE i \in 1..10 : DigitChars[i] = c) - 1
AllDigits(cs) == \A i \in 1..Len(cs) : IsDigit(cs[i])

RECURSIVE NatOf(_)
NatOf(cs) ==
  IF Len(cs) = 0 THEN 0
  ELSE 10 * NatOf(SubSeq(cs, 1, Len(cs) - 1)) + DigitValue(cs[Len(cs)])

RECURSIVE LineOf(_)
\* the decimal digits of the natural number n
LineOf(n) == IF n < 10 THEN <<DigitChars[n + 1]>> ELSE LineOf(n \div 10) \o <<DigitChars[(n % 10) + 1]>>

HasSign(cs) == Len(cs) > 0 /\ cs[1] \in {"-", "+"}
Unsigned(cs) == IF HasSign(cs) THEN Tail(cs) ELSE cs
IsNegative(cs) == Len(cs) > 0 /\ cs[1] = "-"

\* int(line): [ok |-> whether it parsed (else ValueError), v |-> the int]
PyInt(cs) ==
  LET body == Unsigned(cs)
  IN IF Len(body) > 0 /\ AllDigits(body)
     THEN [ok |-> TRUE, v |-> IF IsNegative(cs) THEN -NatOf(body) ELSE NatOf(body)]
     ELSE [ok |-> FALSE, v |-> 0]

\* float(line): the float, or Raise("ValueError")
PyFloat(cs) ==
  LET body == Unsigned(cs)
      dots == {i \in 1..Len(body) : body[i] = "."}
  IN IF body = <<"n", "a", "n">> THEN NaN
     ELSE IF body = <<"i", "n", "f">> THEN Inf(IsNegative(cs))
     ELSE IF dots = {}
     THEN (IF Len(body) > 0 /\ AllDigits(body)
           THEN Fin(IsNegative(cs), NatToBig(NatOf(body)), <<1>>)
           ELSE Raise("ValueError"))
     ELSE IF Cardinality(dots) = 1
     THEN LET dot == CHOOSE i \in dots : TRUE
              whole == SubSeq(body, 1, dot - 1)
              frac == SubSeq(body, dot + 1, Len(body))
          IN IF Len(whole) + Len(frac) > 0 /\ AllDigits(whole) /\ AllDigits(frac)
             THEN Fin(IsNegative(cs), NatToBig(NatOf(whole \o frac)),
                      BigPow(<<10>>, Len(frac)))
             ELSE Raise("ValueError")
     ELSE Raise("ValueError")

\* one turn of the loop of get_positive_float on the line read: whether it
\* returns, the value, and what it prints
get_positive_float(cs, input_name) ==
  LET value == PyFloat(cs)
  IN IF IsRaise(value)
     THEN [returned |-> FALSE, value |-> value,
           printed |-> "Not a valid float value. Try again..."]
     ELSE IF FLe(value, FInt(0))
     THEN [returned |-> FALSE, value |-> value,
           printed |-> "Value of \"" \o input_name \o "\" should be positive. Try again..."]
     ELSE [returned |-> TRUE, value |-> value, printed |-> ""]

\* one turn of the loop of get_positive_int
get_positive_int(cs, input_name) ==
  LET value == PyInt(cs)
  IN IF ~value.ok
     THEN [returned |-> FALSE, value |-> 0,
           printed |-> "Not a valid int value. Try again..."]
     ELSE IF value.v <= 0
     THEN [returned |-> FALSE, value |-> value.v,
           printed |-> "Value of \"" \o input_name \o "\" should be positive. Try again..."]
     ELSE [returned |-> TRUE, value |-> value.v, printed |-> ""]

\* one turn of the loop of get_repayment_frequency
get_repayment_frequency(cs) ==
  LET choice == PyInt(cs)
  IN IF ~choice.ok
     THEN [returned |-> FALSE, value |-> 0,
           printed |-> "Not a valid int value. Try again..."]
     ELSE IF choice.v \in {7, 14, 30}
     THEN [returned |-> TRUE, value |-> choice.v, printed |-> ""]
     ELSE [returned |-> FALSE, value |-> choice.v,
           printed |-> "Value of frequency should be 7, 14 or 30. Try again..."]

(***************************************************************************)
(* State.                                                                  *)
(***************************************************************************)
VARIABLES
  pc,           \* where main() stands: the prompt it waits at; "api" outside main
  line,         \* the last line main() read from the console
  msg,          \* the last message main() printed
  loan,         \* the caller's loan (main's local), None until assigned
  years,        \* the caller's years
  interest,     \* the caller's interest
  r_frequency,  \* the caller's r_frequency
  mortgage,     \* the Mortgage object last constructed, None before
  summary,      \* what str(mortgage) gave, None until it is called
  balances,     \* n :> what mortgage.balance_after(n) gave, for the calls made
  repaid,       \* k :> what Mortgage(loan, years, interest, k).repayments() gave
  plot          \* what draw_balance_graph did, None until it is called

vars == <<pc, line, msg, loan, years, interest, r_frequency, mortgage, summary,
          balances, repaid, plot>>

(***************************************************************************)
(* Bounds and the arguments drawn.  The interest rates are chosen so that  *)
(* the daily factor 1 + interest / 36500 is a small integer.               *)
(***************************************************************************)
MaxYears == 2

Frequencies == {7, 14, 30}
Intervals == Frequencies \cup {10}
Principals == {FInt(1000), FDec(25005, 1)}
Rates == {FInt(0), FInt(36500)}
Terms == 0..MaxYears

IsValidLoan(m) ==
  /\ IsFin(m.loan) /\ FLt(FInt(0), m.loan)
  /\ m.years >= 1
  /\ IsFin(m.interest) /\ FLt(FInt(0), m.interest)
  /\ m.r_frequency \in Frequencies

(***************************************************************************)
(* Spec: a caller holds one Mortgage object and calls balance_after on it. *)
(***************************************************************************)
Init ==
  /\ pc = "api" /\ line = None /\ msg = ""
  /\ loan = None /\ years = None /\ interest = None /\ r_frequency = None
  /\ summary = None /\ balances = <<>> /\ repaid = <<>> /\ plot = None
  /\ \E l \in Principals, y \in Terms, i \in Rates, k \in Intervals :
       mortgage = Some(Mortgage(l, y, i, k))

\* a call mortgage.balance_after(n) with an n not passed before
BalanceAfter(n) ==
  /\ n \notin DOMAIN balances
  /\ balances' = (n :> balance_after(Get(mortgage), n)) @@ balances
  /\ UNCHANGED <<pc, line, msg, loan, years, interest, r_frequency, mortgage,
                 summary, repaid, plot>>

Next == \E n \in -1..(Get(mortgage).years + 1) : BalanceAfter(n)

Spec == Init /\ [][Next]_vars

\* C1: for a valid loan, balance_after(years) is zero: the loan is fully
\* amortized at the end of its term (exact arithmetic)
FullyAmortizes ==
  LET m == Get(mortgage)
  IN (IsValidLoan(m) /\ m.years \in DOMAIN balances)
        => FEq(balances[m.years], FInt(0))

FullyAmortizesWitness ==
  LET m == Get(mortgage)
  IN /\ IsValidLoan(m) /\ m.years = MaxYears /\ m.years \in DOMAIN balances
     /\ IsZero(balances[m.years])

\* C2: for a valid loan, balance_after(0) equals the principal
BalanceAtZeroIsPrincipal ==
  LET m == Get(mortgage)
  IN (IsValidLoan(m) /\ 0 \in DOMAIN balances) => FEq(balances[0], m.loan)

BalanceAtZeroWitness ==
  LET m == Get(mortgage)
  IN /\ IsValidLoan(m) /\ 0 \in DOMAIN balances
     /\ balances[0] = FDec(25005, 1)

\* C3: balance_after(n) raises the out-of-range error (ValueError) for every
\* n < 0 and every n > years, and for no n in 0..years
RangeChecked ==
  LET m == Get(mortgage)
  IN \A n \in DOMAIN balances :
       (balances[n].k = "ValueError") <=> (n < 0 \/ n > m.years)

RangeCheckedWitness ==
  LET m == Get(mortgage)
  IN /\ {-1, 0, m.years, m.years + 1} \subseteq DOMAIN balances
     /\ m.years >= 1
     /\ balances[-1].k = "ValueError" /\ balances[m.years + 1].k = "ValueError"
     /\ IsFin(balances[0]) /\ IsFin(balances[m.years])

Loans == {FInt(0), FInt(1000)}
AllRates == Rates \cup {FInt(73000)}

InitRepay ==
  /\ pc = "api" /\ line = None /\ msg = ""
  /\ \E l \in Loans, y \in Terms, i \in AllRates :
       loan = Some(l) /\ years = Some(y) /\ interest = Some(i)
  /\ r_frequency = None /\ mortgage = None
  /\ summary = None /\ balances = <<>> /\ repaid = <<>> /\ plot = None

\* mortgage = Mortgage(loan, years, interest, k)
Construct(k) ==
  /\ r_frequency # Some(k)
  /\ r_frequency' = Some(k)
  /\ mortgage' = Some(Mortgage(Get(loan), Get(years), Get(interest), k))
  /\ summary' = None
  /\ UNCHANGED <<pc, line, msg, loan, years, interest, balances, repaid, plot>>

\* mortgage.repayments()
CallRepayments ==
  /\ mortgage # None
  /\ Get(mortgage).r_frequency \notin DOMAIN repaid
  /\ repaid' = (Get(mortgage).r_frequency :> repayments(Get(mortgage))) @@ repaid
  /\ UNCHANGED <<pc, line, msg, loan, years, interest, r_frequency, mortgage,
                 summary, balances, plot>>

\* str(mortgage)
CallStr ==
  /\ mortgage # None
  /\ summary = None
  /\ summary' = Some(Str(Get(mortgage)))
  /\ UNCHANGED <<pc, line, msg, loan, years, interest, r_frequency, mortgage,
                 balances, repaid, plot>>

NextRepay ==
  \/ \E k \in Intervals : Construct(k)
  \/ CallRepayments
  \/ CallStr

SpecRepay == InitRepay /\ [][NextRepay]_vars

\* the caller's principal, term and rate are those of a valid loan
ValidTerms ==
  /\ FLt(FInt(0), Get(loan)) /\ Get(years) >= 1 /\ FLt(FInt(0), Get(interest))

\* C4: repayments() raises, and returns no value, when the principal is 0,
\* or the term is 0, or the rate is 0
\* (each taken alone, the other fields and the interval valid)
ZeroFieldRejected ==
  LET zeros == (IF IsZero(Get(loan)) THEN 1 ELSE 0) + (IF Get(years) = 0 THEN 1 ELSE 0)
               + (IF IsZero(Get(interest)) THEN 1 ELSE 0)
  IN zeros = 1 => \A k \in DOMAIN repaid : k \in Frequencies => IsRaise(repaid[k])

\* C6: with a repayment interval outside {7, 14, 30} repayments() raises
\* instead of giving a repayment amount
\* (the principal, the term and the rate being valid)
UnsupportedIntervalRejected ==
  ValidTerms => \A k \in DOMAIN repaid : k \notin Frequencies => IsRaise(repaid[k])

\* C7: for one valid principal, term and rate, the repayment amounts are
\* strictly ordered by interval: weekly < fortnightly < monthly
RepaymentOrderedByInterval ==
  (ValidTerms /\ Frequencies \subseteq DOMAIN repaid)
     => FLt(repaid[7], repaid[14]) /\ FLt(repaid[14], repaid[30])

RepaymentOrderedWitness ==
  /\ ValidTerms /\ Frequencies \subseteq DOMAIN repaid
  /\ IsFin(repaid[7]) /\ IsFin(repaid[14]) /\ IsFin(repaid[30])
  /\ FLt(FInt(0), repaid[7]) /\ FLt(repaid[7], repaid[30])

\* C8: the summary labels the repayment line by interval: 7 is "Weekly",
\* 14 is "Fortnightly", 30 is "Monthly", and another value n is "n days"
SummaryLabel ==
  (summary # None /\ Get(summary).raised = "")
     => LET k == Get(mortgage).r_frequency
            label == Get(summary).label
        IN /\ k = 7 => label = "Weekly"
           /\ k = 14 => label = "Fortnightly"
           /\ k = 30 => label = "Monthly"
           /\ k = 10 => label = "10 days"
           /\ k \notin Frequencies => label = ToString(k) \o " days"

SummaryLabelWitness ==
  /\ summary # None /\ Get(summary).raised = ""
  /\ Get(mortgage).r_frequency = 10 /\ Get(summary).label = "10 days"

(***************************************************************************)
(* SpecMain: the console program main().  Each action is one line read     *)
(* from the console and everything main() does until it reads the next.    *)
(***************************************************************************)
LoanLines ==
  {<<"a", "b", "c">>, <<"-", "5">>, <<"0">>, <<"n", "a", "n">>, <<"i", "n", "f">>,
   <<"1", "0", "0", "0">>, <<"2", "5", "0", "0", ".", "5">>}
YearLines ==
  {<<"x">>, <<"0">>, <<"-", "1">>, <<"1", ".", "5">>} \cup {LineOf(y) : y \in 1..MaxYears}
InterestLines ==
  {<<"a", "b", "c">>, <<"-", "5">>, <<"0">>, <<"n", "a", "n">>,
   <<"3", "6", "5", "0", "0">>, <<"7", "3", "0", "0", "0">>}
FrequencyLines ==
  {<<"x">>, <<"7", ".", "0">>, <<"0">>} \cup {LineOf(k) : k \in Intervals}
ChoiceLines == {<<"y">>, <<"n">>}

InitMain ==
  /\ pc = "loan" /\ line = None /\ msg = ""
  /\ loan = None /\ years = None /\ interest = None /\ r_frequency = None
  /\ mortgage = None /\ summary = None /\ balances = <<>> /\ repaid = <<>>
  /\ plot = None

\* loan = get_positive_float("Enter Loan Amount in AUD: ", "loan")
ReadLoan(cs) ==
  /\ pc = "loan"
  /\ line' = Some(cs)
  /\ LET r == get_positive_float(cs, "loan")
     IN /\ msg' = r.printed
        /\ loan' = IF r.returned THEN Some(r.value) ELSE loan
        /\ pc' = IF r.returned THEN "years" ELSE pc
  /\ UNCHANGED <<years, interest, r_frequency, mortgage, summary, balances, repaid, plot>>

\* years = get_positive_int("Enter Loan Term in Years: ", "year")
ReadYears(cs) ==
  /\ pc = "years"
  /\ line' = Some(cs)
  /\ LET r == get_positive_int(cs, "year")
     IN /\ msg' = r.printed
        /\ years' = IF r.returned THEN Some(r.value) ELSE years
        /\ pc' = IF r.returned THEN "interest" ELSE pc
  /\ UNCHANGED <<loan, interest, r_frequency, mortgage, summary, balances, repaid, plot>>

\* interest = get_positive_float("Enter the Bank's Interest Rate in %: ", "interest")
ReadInterest(cs) ==
  /\ pc = "interest"
  /\ line' = Some(cs)
  /\ LET r == get_positive_float(cs, "interest")
     IN /\ msg' = r.printed
        /\ interest' = IF r.returned THEN Some(r.value) ELSE interest
        /\ pc' = IF r.returned THEN "frequency" ELSE pc
  /\ UNCHANGED <<loan, years, r_frequency, mortgage, summary, balances, repaid, plot>>

\* r_frequency = get_repayment_frequency(); once it returns, the Mortgage is
\* constructed and printed (an exception of __str__ ends the program)
ReadFrequency(cs) ==
  /\ pc = "frequency"
  /\ line' = Some(cs)
  /\ LET r == get_repayment_frequency(cs)
     IN /\ msg' = r.printed
        /\ r_frequency' = IF r.returned THEN Some(r.value) ELSE r_frequency
        /\ mortgage' = IF r.returned
                       THEN Some(Mortgage(Get(loan), Get(years), Get(interest), r.value))
                       ELSE mortgage
        /\ summary' = IF r.returned THEN Some(Str(Get(mortgage'))) ELSE summary
        /\ pc' = IF ~r.returned THEN pc
                 ELSE IF Get(summary').raised # "" THEN "crashed" ELSE "choice"
  /\ UNCHANGED <<loan, years, interest, balances, repaid, plot>>

\* choice = input('Would you like to plot ...'); on 'y' the graph is drawn,
\* and an exception of draw_balance_graph is caught and printed
ReadChoice(cs) ==
  /\ pc = "choice"
  /\ line' = Some(cs)
  /\ plot' = IF cs = <<"y">> THEN Some(draw_balance_graph(Get(mortgage))) ELSE plot
  /\ msg' = IF plot' # None /\ Get(plot').raised # ""
            THEN "An error occurred while plotting the graph: " \o Get(plot').raised
            ELSE msg
  /\ pc' = "done"
  /\ UNCHANGED <<loan, years, interest, r_frequency, mortgage, summary, balances, repaid>>

NextMain ==
  \/ \E cs \in LoanLines : ReadLoan(cs)
  \/ \E cs \in YearLines : ReadYears(cs)
  \/ \E cs \in InterestLines : ReadInterest(cs)
  \/ \E cs \in FrequencyLines : ReadFrequency(cs)
  \/ \E cs \in ChoiceLines : ReadChoice(cs)

SpecMain == InitMain /\ [][NextMain]_vars

\* C9: main() constructs the Mortgage only with loan > 0, years a positive
\* integer, interest > 0 and r_frequency in {7, 14, 30}, after all four
\* inputs were accepted
MortgageOnlyFromValidInputs ==
  mortgage # None =>
    /\ loan # None /\ years # None /\ interest # None /\ r_frequency # None
    /\ Get(mortgage) = Mortgage(Get(loan), Get(years), Get(interest), Get(r_frequency))
    /\ FLt(FInt(0), Get(mortgage).loan)
    /\ Get(mortgage).years >= 1
    /\ FLt(FInt(0), Get(mortgage).interest)
    /\ Get(mortgage).r_frequency \in {7, 14, 30}

\* C10: draw_balance_graph calls balance_after(y) once for each y = 1, ...,
\* years in ascending order (no call for year 0), and for a valid loan none
\* of the calls raises the out-of-range error
GraphCallsEachYearOnce ==
  plot # None =>
    LET g == Get(plot)
        m == Get(mortgage)
    IN /\ Len(g.calls) = m.years
       /\ \A j \in 1..Len(g.calls) : g.calls[j] = j
       /\ IsValidLoan(m) => g.raised # "ValueError" /\ Len(g.remaining_balances) = m.years

GraphCallsWitness ==
  /\ plot # None /\ IsValidLoan(Get(mortgage))
  /\ Get(mortgage).years = 2 /\ Get(plot).calls = <<1, 2>>
  /\ Len(Get(plot).remaining_balances) = 2

====
